---- MODULE Spec2Model ----
(***************************************************************************)
(* TentacleSystem: three canvas demos that animate multi-segment           *)
(* appendages around a body chasing the pointer.                           *)
(*   legged  - src/unnamed/part_000        (class Leg, threshold stepping) *)
(*   phase   - src/src/app/page.tsx:1-303  (class Tentacle, shared gait    *)
(*             phase)                                                      *)
(*   reach   - src/src/app/page.tsx:305-647 (class Tentacle,               *)
(*             updateReaching)                                             *)
(*                                                                         *)
(* Numbers.  Every JavaScript value here is an IEEE-754 binary64.  The two *)
(* gait counters, Leg.stepProgress and gaitPhase, are compared against     *)
(* 1, 0.5 and 0.9 to decide state transitions, so they are modelled        *)
(* bit-exactly: a counter is the integer N of its value N * 2^-78, held as *)
(* seven base-2^13 limbs (least significant first), and every sum and      *)
(* product is rounded to 53 significant bits, ties to even, as the         *)
(* hardware does.  Coordinates, velocities and angles are held on a        *)
(* fixed-point grid of 1/Scale pixel (angles in tenths of a degree), with  *)
(* Math.sqrt, Math.sin, Math.cos and Math.atan2 computed in integers.      *)
(***************************************************************************)
EXTENDS Integers, Naturals, Sequences, FiniteSets, TLC

(***************************************************************************)
(* binary64 arithmetic on limb sequences                                   *)
(***************************************************************************)
W == 2^13

RECURSIVE Prop(_, _)
Prop(cols, c) ==
  IF cols = <<>> THEN <<c>>
  ELSE <<(Head(cols) + c) % W>> \o Prop(Tail(cols), (Head(cols) + c) \div W)

BigAdd(a, b) == Prop([i \in 1..Len(a) |-> a[i] + b[i]], 0)

RECURSIVE Borrow(_, _, _)
Borrow(a, b, br) ==
  IF a = <<>> THEN <<>>
  ELSE LET d == Head(a) - Head(b) - br
       IN  IF d < 0 THEN <<d + W>> \o Borrow(Tail(a), Tail(b), 1)
           ELSE <<d>> \o Borrow(Tail(a), Tail(b), 0)

BigSub(a, b) == Borrow(a, b, 0)

RECURSIVE Col(_, _, _, _)
Col(a, b, k, i) ==
  IF i > Len(a) \/ i > k THEN 0
  ELSE (IF k - i + 1 <= Len(b) THEN a[i] * b[k - i + 1] ELSE 0) + Col(a, b, k, i + 1)

BigMul(a, b) == Prop([k \in 1..(Len(a) + Len(b) - 1) |-> Col(a, b, k, 1)], 0)

RECURSIVE BigLess(_, _, _)
BigLess(a, b, i) ==
  IF i = 0 THEN FALSE
  ELSE IF a[i] # b[i] THEN a[i] < b[i]
  ELSE BigLess(a, b, i - 1)

\* a < b, a <= b for two counters of the same length
Less(a, b) == BigLess(a, b, Len(a))
LessEq(a, b) == ~Less(b, a)

RECURSIVE Bits(_)
Bits(x) == IF x = 0 THEN 0 ELSE 1 + Bits(x \div 2)

RECURSIVE TopLimb(_, _)
TopLimb(n, i) == IF i = 0 THEN 0 ELSE IF n[i] # 0 THEN i ELSE TopLimb(n, i - 1)

BitLen(n) ==
  LET t == TopLimb(n, Len(n))
  IN  IF t = 0 THEN 0 ELSE 13 * (t - 1) + Bits(n[t])

\* round-to-nearest, ties-to-even, to 53 significant bits
Round53(n) ==
  LET s == BitLen(n) - 53
  IN  IF s <= 0 THEN n
      ELSE
        LET li == s \div 13 + 1
            bo == s % 13
            lowZero(k) == \A j \in 1..k : n[j] = 0
            cmp == IF bo >= 1
                   THEN LET t == n[li] % (2^bo)
                            h == 2^(bo - 1)
                        IN  IF t > h THEN 1
                            ELSE IF t < h THEN -1
                            ELSE IF lowZero(li - 1) THEN 0 ELSE 1
                   ELSE IF n[li - 1] > W \div 2 THEN 1
                        ELSE IF n[li - 1] < W \div 2 THEN -1
                        ELSE IF lowZero(li - 2) THEN 0 ELSE 1
            odd == (n[li] \div (2^bo)) % 2 = 1
            trunc == [i \in 1..Len(n) |->
                        IF i < li THEN 0
                        ELSE IF i = li THEN n[i] - (n[i] % (2^bo))
                        ELSE n[i]]
            unit == [i \in 1..Len(n) |-> IF i = li THEN 2^bo ELSE 0]
        IN  IF cmp = 1 \/ (cmp = 0 /\ odd)
            THEN SubSeq(BigAdd(trunc, unit), 1, Len(n))
            ELSE trunc

\* a + b, a - b (a >= b) and a * b of binary64 values
FAdd(a, b) == SubSeq(Round53(BigAdd(a, b)), 1, 7)
FSub(a, b) == Round53(BigSub(a, b))
FMul(a, b) == SubSeq(Round53(BigMul(a, b)), 7, 13)

\* floor(a * k) for a small integer k: the counter on a grid of 1/k
ToGrid(a, k) == LET p == BigMul(a, <<k>>) IN p[7] + W * p[8]

F0 == <<0, 0, 0, 0, 0, 0, 0>>
F1 == <<0, 0, 0, 0, 0, 0, 1>>


(***************************************************************************)
(* fixed-point geometry                                                    *)
(***************************************************************************)
\* grid units per pixel
Scale == 64

Px(n) == n * Scale
Pt(px, py) == [x |-> px, y |-> py]

\* a * num / den, rounded toward zero
Frac(a, num, den) ==
  LET p == a * num IN IF p >= 0 THEN p \div den ELSE -((-p) \div den)

\* lerp(a, b, t) with t = num/den                 part_000:195, page.tsx:101
lerp(a, b, num, den) == a + Frac(b - a, num, den)

RECURSIVE SqrtIter(_, _)
SqrtIter(n, g) ==
  LET h == (g + n \div g) \div 2
  IN  IF h >= g THEN g ELSE SqrtIter(n, h)

\* Math.sqrt on the grid: the integer square root, Newton's iteration started from a guess
SqrtFrom(n, guess) ==
  LET g == IF guess > 0 THEN guess ELSE 1
  IN  IF n = 0 THEN 0 ELSE SqrtIter(n, (g + n \div g) \div 2 + 1)

Sqrt(n) == SqrtFrom(n, 2^10)

\* distance between two points, with a starting guess for the root
DistFrom(px, py, qx, qy, guess) ==
  SqrtFrom((px - qx) * (px - qx) + (py - qy) * (py - qy), guess)

Dist(px, py, qx, qy) == DistFrom(px, py, qx, qy, 2^10)

\* Math.sin / Math.cos of an angle in tenths of a degree, times 1000
\* (Bhaskara's rational approximation, exact at 0, 30, 90, 150, 180 degrees)
SinHalf(d) ==
  LET p == d * (1800 - d) IN (1000 * p) \div (1012500 - p \div 4)

Sin(a) ==
  LET m == a % 3600
  IN  IF m <= 1800 THEN SinHalf(m) ELSE -SinHalf(m - 1800)

Cos(a) == Sin(a + 900)

\* Math.atan2(dy, dx) in tenths of a degree, in (-1800, 1800]
Atan2(dy, dx) ==
  LET ax == IF dx < 0 THEN -dx ELSE dx
      ay == IF dy < 0 THEN -dy ELSE dy
      lo == IF ax < ay THEN ax ELSE ay
      hi == IF ax < ay THEN ay ELSE ax
      z  == IF hi = 0 THEN 0 ELSE (1000 * lo) \div hi
      o  == (z * (450000 + 156 * (1000 - z))) \div 1000000
      q  == IF ay > ax THEN 900 - o ELSE o
      h  == IF dx < 0 THEN 1800 - q ELSE q
  IN  IF dy < 0 THEN -h ELSE h


(***************************************************************************)
(* legged variant: class Leg                        src/unnamed/part_000   *)
(***************************************************************************)
stepThreshold == 80
LEG_COUNT == 7
baseDist == 50

\* SPEEDS[profile].bodyMove in thousandths, SPEEDS[profile].stepSpeed as binary64
Profiles == {"slow", "normal", "fast"}
bodyMove(sp) == CASE sp = "slow" -> 15 [] sp = "normal" -> 30 [] sp = "fast" -> 60
stepSpeed(sp) ==
  CASE sp = "slow"   -> <<0, 7168, 5242, 7536, 6225, 245, 0>>   \* 0.03
    [] sp = "normal" -> <<0, 6144, 2293, 6881, 4259, 491, 0>>   \* 0.06
    [] sp = "fast"   -> <<0, 4096, 4587, 5570, 327, 983, 0>>    \* 0.12

\* new Leg(x, y, length, segLength, angle, dist, color, index)
NewLeg(bx, by, length, segLength, angle, dist) ==
  LET homeOffset == Pt(Frac(dist, Cos(angle), 1000), Frac(dist, Sin(angle), 1000))
      home == Pt(bx + homeOffset.x, by + homeOffset.y)
  IN  [ segments     |-> [i \in 1..length |-> home],
        segLength    |-> segLength,
        tipPos       |-> home,
        targetTipPos |-> home,
        isStepping   |-> FALSE,
        stepProgress |-> F0,
        homeOffset   |-> homeOffset ]

\* one correction of joint curr against its neighbour other:
\*   d = sqrt(dx*dx + dy*dy) || 1; diff = (d - segLength) / d; curr -= (dx, dy) * diff * num/den
Pull(curr, other, segLength, num, den) ==
  LET dx == curr.x - other.x
      dy == curr.y - other.y
      d0 == SqrtFrom(dx * dx + dy * dy, segLength)
      d  == IF d0 = 0 THEN Px(1) ELSE d0
  IN  Pt(curr.x - Frac(dx * (d - segLength), num, den * d),
         curr.y - Frac(dy * (d - segLength), num, den * d))

\* for (i = from; i <= last; i++) segments[i] is pulled toward segments[i - 1]
RECURSIVE SweepOut(_, _, _, _, _)
SweepOut(segs, i, segLength, num, den) ==
  IF i > Len(segs) THEN segs
  ELSE SweepOut([segs EXCEPT ![i] = Pull(segs[i], segs[i - 1], segLength, num, den)],
                i + 1, segLength, num, den)

\* for (i = from; i >= 0; i--) segments[i] is pulled toward segments[i + 1]
\* (index 0 of the source is index 1 here)
RECURSIVE SweepIn(_, _, _, _, _)
SweepIn(segs, i, segLength, num, den) ==
  IF i < 1 THEN segs
  ELSE SweepIn([segs EXCEPT ![i] = Pull(segs[i], segs[i + 1], segLength, num, den)],
               i - 1, segLength, num, den)

\* one pass of the relaxation loop without the re-fix of the tip (lines 136-137)
LegRelaxPassLooseTip(segs, body, tip, segLength) ==
  LET last == Len(segs)
      a == SweepOut(segs, 2, segLength, 1, 2)
      b == [a EXCEPT ![1] = body]
  IN  SweepIn(b, last - 1, segLength, 1, 2)

\* part_000:108-138, one pass of the relaxation loop
LegRelaxPass(segs, body, tip, segLength) ==
  LET last == Len(segs)
      a == SweepOut(segs, 2, segLength, 1, 2)
      b == [a EXCEPT ![1] = body]
      c == SweepIn(b, last - 1, segLength, 1, 2)
  IN  [c EXCEPT ![last] = tip]

\* part_000:96-138
LegIK(segs, body, tip, segLength) ==
  LET last == Len(segs)
      s0 == [[segs EXCEPT ![1] = body] EXCEPT ![last] = tip]
      s1 == LegRelaxPass(s0, body, tip, segLength)
      s2 == LegRelaxPass(s1, body, tip, segLength)
  IN  LegRelaxPass(s2, body, tip, segLength)

\* part_000:56-59
WorldHome(leg, bodyX, bodyY, bodyAngle) ==
  LET cos == Cos(bodyAngle)
      sin == Sin(bodyAngle)
  IN  Pt(bodyX + Frac(leg.homeOffset.x * cos - leg.homeOffset.y * sin, 1, 1000),
         bodyY + Frac(leg.homeOffset.x * sin + leg.homeOffset.y * cos, 1, 1000))

\* part_000:62
DistToHome(leg, bodyX, bodyY, bodyAngle) ==
  LET wh == WorldHome(leg, bodyX, bodyY, bodyAngle)
  IN  Dist(leg.tipPos.x, leg.tipPos.y, wh.x, wh.y)

\* the guard without its isStepping test: a leg far from home restarts its step
TriggersWhileStepping(leg, bodyX, bodyY, bodyAngle) ==
  DistToHome(leg, bodyX, bodyY, bodyAngle) > Px(stepThreshold)

\* part_000:66, the guard of the trigger
Triggers(leg, bodyX, bodyY, bodyAngle) ==
  ~leg.isStepping /\ DistToHome(leg, bodyX, bodyY, bodyAngle) > Px(stepThreshold)

\* the trigger with the landing spot projected again in every update of a step
LegTriggerRetargeting(leg, bodyX, bodyY, bodyAngle, velocity) ==
  LET wh == WorldHome(leg, bodyX, bodyY, bodyAngle)
      spot == Pt(wh.x + Frac(velocity.x, 3, 2), wh.y + Frac(velocity.y, 3, 2))
  IN  IF Triggers(leg, bodyX, bodyY, bodyAngle)
      THEN [leg EXCEPT !.isStepping = TRUE, !.stepProgress = F0, !.targetTipPos = spot]
      ELSE IF leg.isStepping THEN [leg EXCEPT !.targetTipPos = spot]
      ELSE leg

\* part_000:66-76
LegTrigger(leg, bodyX, bodyY, bodyAngle, velocity) ==
  LET wh == WorldHome(leg, bodyX, bodyY, bodyAngle)
  IN  IF Triggers(leg, bodyX, bodyY, bodyAngle)
      THEN [leg EXCEPT !.isStepping = TRUE,
                       !.stepProgress = F0,
                       !.targetTipPos = Pt(wh.x + Frac(velocity.x, 3, 2),
                                           wh.y + Frac(velocity.y, 3, 2))]
      ELSE leg

\* smoothstep t * t * (3 - 2 * t) of a counter, in thousandths
Ease(progress) ==
  LET t == ToGrid(progress, 1000)
  IN  (((t * t) \div 1000) * (3000 - 2 * t)) \div 1000

\* the stepping branch without the clamp of line 81
LegStepUnclamped(leg, speed) ==
  IF leg.isStepping
  THEN LET p == FAdd(leg.stepProgress, speed)
       IN  IF LessEq(F1, p)
           THEN [leg EXCEPT !.stepProgress = p,
                            !.isStepping = FALSE,
                            !.tipPos = leg.targetTipPos]
           ELSE [leg EXCEPT !.stepProgress = p,
                            !.tipPos = Pt(lerp(leg.tipPos.x, leg.targetTipPos.x, Ease(p), 1000),
                                          lerp(leg.tipPos.y, leg.targetTipPos.y, Ease(p), 1000))]
  ELSE leg

\* the stepping branch without the snap of line 83
LegStepNoSnap(leg, speed) ==
  IF leg.isStepping
  THEN LET p == FAdd(leg.stepProgress, speed)
       IN  IF LessEq(F1, p)
           THEN [leg EXCEPT !.stepProgress = F1,
                            !.isStepping = FALSE]
           ELSE [leg EXCEPT !.stepProgress = p,
                            !.tipPos = Pt(lerp(leg.tipPos.x, leg.targetTipPos.x, Ease(p), 1000),
                                          lerp(leg.tipPos.y, leg.targetTipPos.y, Ease(p), 1000))]
  ELSE leg

\* part_000:78-94
LegStep(leg, speed) ==
  IF leg.isStepping
  THEN LET p == FAdd(leg.stepProgress, speed)
       IN  IF LessEq(F1, p)
           THEN [leg EXCEPT !.stepProgress = F1,
                            !.isStepping = FALSE,
                            !.tipPos = leg.targetTipPos]
           ELSE [leg EXCEPT !.stepProgress = p,
                            !.tipPos = Pt(lerp(leg.tipPos.x, leg.targetTipPos.x, Ease(p), 1000),
                                          lerp(leg.tipPos.y, leg.targetTipPos.y, Ease(p), 1000))]
  ELSE leg

\* Leg.update(bodyX, bodyY, bodyAngle, velocity, speedCfg)
LegUpdate(leg, bodyX, bodyY, bodyAngle, velocity, speed) ==
  LET l1 == LegTrigger(leg, bodyX, bodyY, bodyAngle, velocity)
      l2 == LegStep(l1, speed)
  IN  [l2 EXCEPT !.segments = LegIK(l2.segments, Pt(bodyX, bodyY), l2.tipPos, l2.segLength)]


(***************************************************************************)
(* phase-cycled variant: class Tentacle           src/src/app/page.tsx:19  *)
(***************************************************************************)
TENTACLE_COUNT == 16
PHASE_SEGMENTS == 14
PHASE_SEGLENGTH == 10
phaseDeadzone == 30

\* SPEEDS[profile].gait as binary64, SPEEDS[profile].lerp in thousandths
gait(sp) ==
  CASE sp = "slow"   -> <<0, 7552, 6225, 2293, 6881, 163, 0>>   \* 0.02
    [] sp = "normal" -> <<0, 6656, 3276, 1638, 4915, 409, 0>>   \* 0.05
    [] sp = "fast"   -> <<0, 4096, 4587, 5570, 327, 983, 0>>    \* 0.12
bodyLerp(sp) == CASE sp = "slow" -> 30 [] sp = "normal" -> 100 [] sp = "fast" -> 250

FTenth == <<0, 5120, 6553, 3276, 1638, 819, 0>>   \* 0.1
FHalf  == <<0, 0, 0, 0, 0, 4096, 0>>              \* 0.5
FNine  == <<0, 4096, 1638, 4915, 6553, 7372, 0>>  \* 0.9

\* new Tentacle(x, y, length, segLength, color, angleOffset)
NewTentacle(bx, by, length, segLength, angleOffset) ==
  [ segments    |-> [i \in 1..length |-> Pt(bx, by)],
    segLength   |-> segLength,
    angleOffset |-> angleOffset ]

\* the reach branch taken through the drag band as well
ReachingInBand(movePhase) == Less(movePhase, FNine)

\* page.tsx:43, the guard of the reach branch
Reaching(movePhase) == Less(movePhase, FHalf)

\* page.tsx:44-52, where the reach formula puts the head
ReachHead(t, bodyX, bodyY, targetX, targetY, movePhase) ==
  LET head == t.segments[Len(t.segments)]
      angleToTarget == Atan2(targetY - bodyY, targetX - bodyX)
      reachStrength == Sin(ToGrid(movePhase, 1800))
      sweepAngle == angleToTarget + Frac(t.angleOffset, 1, 2)
      reachDist == Frac(Len(t.segments) * t.segLength, 600 + Frac(reachStrength, 400, 1000), 1000)
      tx == bodyX + Frac(reachDist, Cos(sweepAngle), 1000)
      ty == bodyY + Frac(reachDist, Sin(sweepAngle), 1000)
  IN  Pt(lerp(head.x, tx, 1, 10), lerp(head.y, ty, 1, 10))

\* page.tsx:55-73
TentacleIK(segs, body, segLength) ==
  LET a == SweepIn(segs, Len(segs) - 1, segLength, 1, 1)
      b == [a EXCEPT ![1] = body]
  IN  SweepOut(b, 2, segLength, 1, 1)

\* Tentacle.update(bodyX, bodyY, targetX, targetY, time, movePhase)
TentacleUpdate(t, bodyX, bodyY, targetX, targetY, movePhase) ==
  LET last == Len(t.segments)
      s0 == [t.segments EXCEPT ![1] = Pt(bodyX, bodyY)]
      t0 == [t EXCEPT !.segments = s0]
      s1 == IF Reaching(movePhase)
            THEN [s0 EXCEPT ![last] = ReachHead(t0, bodyX, bodyY, targetX, targetY, movePhase)]
            ELSE s0
  IN  [t EXCEPT !.segments = TentacleIK(s1, Pt(bodyX, bodyY), t.segLength)]

(***************************************************************************)
(* continuous-reach variant: class Tentacle      src/src/app/page.tsx:325  *)
(***************************************************************************)
REACH_COUNT == 36

\* new Tentacle(x, y, length, segLength, color); wobbleOffset = Math.random() * 2 * PI
NewReacher(bx, by, length, segLength, wobbleOffset) ==
  [ segments     |-> [i \in 1..length |-> Pt(bx, by)],
    segLength    |-> segLength,
    wobbleOffset |-> wobbleOffset ]

\* ang = atan2(dy, dx); curr = other + (cos(ang), sin(ang)) * segLength: the unit vector
\* of (dx, dy), and (1, 0) when dx = dy = 0 since atan2(0, 0) = 0
Place(curr, other, segLength) ==
  LET dx == curr.x - other.x
      dy == curr.y - other.y
      d  == SqrtFrom(dx * dx + dy * dy, segLength)
  IN  IF d = 0 THEN Pt(other.x + segLength, other.y)
      ELSE Pt(other.x + Frac(dx, segLength, d), other.y + Frac(dy, segLength, d))

RECURSIVE PlaceIn(_, _, _)
PlaceIn(segs, i, segLength) ==
  IF i < 1 THEN segs
  ELSE PlaceIn([segs EXCEPT ![i] = Place(segs[i], segs[i + 1], segLength)], i - 1, segLength)

RECURSIVE PlaceOut(_, _, _)
PlaceOut(segs, i, segLength) ==
  IF i > Len(segs) THEN segs
  ELSE PlaceOut([segs EXCEPT ![i] = Place(segs[i], segs[i - 1], segLength)], i + 1, segLength)

\* page.tsx:409-417, the tip seeking the mouse
ReachTip(t, rootX, rootY, targetX, targetY, time) ==
  LET tip == t.segments[Len(t.segments)]
      angleToMouse == Atan2(targetY - rootY, targetX - rootX)
      full == Len(t.segments) * t.segLength
      dm == Dist(rootX, rootY, targetX, targetY)
      reachDist == IF dm < full THEN dm ELSE full
      wobble == Frac(Sin(Frac(time, 1719, 100) + t.wobbleOffset), 115, 1000)
      tx == rootX + Frac(reachDist, Cos(angleToMouse + wobble), 1000)
      ty == rootY + Frac(reachDist, Sin(angleToMouse + wobble), 1000)
  IN  Pt(lerp(tip.x, tx, 1, 10), lerp(tip.y, ty, 1, 10))

\* page.tsx:419-443
ReacherIK(segs, root, segLength) ==
  LET a == PlaceIn(segs, Len(segs) - 1, segLength)
      b == [a EXCEPT ![1] = root]
  IN  PlaceOut(b, 2, segLength)

\* Tentacle.updateReaching(rootX, rootY, targetX, targetY, time)
UpdateReaching(t, rootX, rootY, targetX, targetY, time) ==
  LET last == Len(t.segments)
      s0 == [t.segments EXCEPT ![1] = Pt(rootX, rootY)]
      t0 == [t EXCEPT !.segments = s0]
      s1 == [s0 EXCEPT ![last] = ReachTip(t0, rootX, rootY, targetX, targetY, time)]
  IN  [t EXCEPT !.segments = ReacherIK(s1, Pt(rootX, rootY), t.segLength)]


(***************************************************************************)
(* the three Home components: refs, state, the effect and its frame loop   *)
(***************************************************************************)
\* bounds of the model
MaxFrames == 3
MaxEvents == 2
SeedChoices == 2

\* window sizes and pointer positions the host may report, in pixels
Viewports == {<<400, 300>>, <<320, 240>>}
Pointers == {<<360, 150>>, <<203, 150>>, <<60, 40>>}

VARIABLES
  variant,       \* which of the three pages is mounted
  gameState,     \* useState<'start' | 'playing'>
  speedProfile,  \* useState<SpeedProfile>
  win,           \* window.innerWidth, window.innerHeight
  mouse,         \* mouseRef.current
  body,          \* bodyRef.current
  apps,          \* legsRef.current / tentaclesRef.current
  gaitPhase,     \* gaitPhase.current
  live,          \* the effect whose listeners are registered: 0 before the first effect
  pending,       \* requestAnimationFrame registrations: the render closures to call
  frames,        \* renders left
  events,        \* host events left
  op             \* the last step taken

vars == <<variant, gameState, speedProfile, win, mouse, body, apps, gaitPhase,
          live, pending, frames, events, op>>

Centre(size) == Pt(Px(size[1]) \div 2, Px(size[2]) \div 2)

\* the refs a render reads and writes
World == [mouse |-> mouse, body |-> body, apps |-> apps, gaitPhase |-> gaitPhase]

\* Math.random() at seeding: choice k gives appendage i its segment count and length
LegSeed(i, k) == [segs |-> 10 + ((i + k) % 5), slen |-> Px(15) + ((2 * i + k) % 5) * Scale]
ReachSeed(i, k) ==
  [segs |-> 12 + ((5 * i + k) % 12), slen |-> Px(8) + ((3 * i + k) % 8) * Scale,
   wobble |-> ((7 * i + k) * 100) % 3600]

\* the appendages resize() creates around body b   part_000:230-238, page.tsx:146-151, 537-543
Seeded(v, b, k) ==
  CASE v = "legged" ->
         [j \in 1..LEG_COUNT |->
            NewLeg(b.x, b.y, LegSeed(j - 1, k).segs, LegSeed(j - 1, k).slen,
                   ((j - 1) * 3600) \div LEG_COUNT, Px(baseDist))]
    [] v = "phase" ->
         [j \in 1..TENTACLE_COUNT |->
            NewTentacle(b.x, b.y, PHASE_SEGMENTS, Px(PHASE_SEGLENGTH),
                        ((j - 1) * 3600) \div TENTACLE_COUNT - 1800)]
    [] v = "reach" ->
         [j \in 1..REACH_COUNT |->
            NewReacher(b.x, b.y, ReachSeed(j - 1, k).segs, ReachSeed(j - 1, k).slen,
                       ReachSeed(j - 1, k).wobble)]

\* a resize() interrupted half way: the first appendages are still the old ones
ResizedTorn(w, v, size, k) ==
  LET b == [x |-> Centre(size).x, y |-> Centre(size).y, angle |-> 0, vx |-> 0, vy |-> 0]
      new == Seeded(v, b, k)
  IN  [w EXCEPT !.body = b, !.mouse = Centre(size),
                !.apps = [j \in 1..Len(new) |->
                            IF j <= 3 /\ j <= Len(w.apps) THEN w.apps[j] ELSE new[j]]]

\* a resize() that keeps the appendages it finds and adds the new ones
ResizedKeeping(w, v, size, k) ==
  LET b == [x |-> Centre(size).x, y |-> Centre(size).y, angle |-> 0, vx |-> 0, vy |-> 0]
  IN  [w EXCEPT !.body = b, !.mouse = Centre(size), !.apps = w.apps \o Seeded(v, b, k)]

\* resize()                                 part_000:224-239, page.tsx:140-152, 531-544
Resized(w, v, size, k) ==
  LET b == [x |-> Centre(size).x, y |-> Centre(size).y, angle |-> 0, vx |-> 0, vy |-> 0]
  IN  [w EXCEPT !.body = b, !.mouse = Centre(size), !.apps = Seeded(v, b, k)]

\* part_000:269-288, "1. Move Body toward Mouse"
bodyDeadzone == 5

\* the pursuit without its deadzone: the body closes in however near the target is
PursuitLeggedNoDeadzone(b, target, gs, sp) ==
  LET dx == target.x - b.x
      dy == target.y - b.y
      vx == Frac(dx, bodyMove(sp), 1000)
      vy == Frac(dy, bodyMove(sp), 1000)
  IN  IF gs # "playing" THEN b
      ELSE [x |-> b.x + vx, y |-> b.y + vy,
            angle |-> lerp(b.angle, Atan2(dy, dx), 5, 100),
            vx |-> vx, vy |-> vy]

\* the pursuit that keeps turning the body toward the target inside the deadzone
PursuitLeggedTurning(b, target, gs, sp) ==
  LET dx == target.x - b.x
      dy == target.y - b.y
      d  == Sqrt(dx * dx + dy * dy)
  IN  IF gs # "playing" THEN b
      ELSE IF d > Px(bodyDeadzone)
      THEN LET vx == Frac(dx, bodyMove(sp), 1000)
               vy == Frac(dy, bodyMove(sp), 1000)
           IN  [x |-> b.x + vx, y |-> b.y + vy,
                angle |-> lerp(b.angle, Atan2(dy, dx), 5, 100),
                vx |-> vx, vy |-> vy]
      ELSE [b EXCEPT !.vx = Frac(b.vx, 8, 10), !.vy = Frac(b.vy, 8, 10),
                     !.angle = lerp(b.angle, Atan2(dy, dx), 5, 100)]

PursuitLegged(b, target, gs, sp) ==
  LET dx == target.x - b.x
      dy == target.y - b.y
      d  == Sqrt(dx * dx + dy * dy)
  IN  IF gs # "playing" THEN b
      ELSE IF d > Px(bodyDeadzone)
      THEN LET vx == Frac(dx, bodyMove(sp), 1000)
               vy == Frac(dy, bodyMove(sp), 1000)
           IN  [x |-> b.x + vx, y |-> b.y + vy,
                angle |-> lerp(b.angle, Atan2(dy, dx), 5, 100),
                vx |-> vx, vy |-> vy]
      ELSE [b EXCEPT !.vx = Frac(b.vx, 8, 10), !.vy = Frac(b.vy, 8, 10)]

\* render() of the legged page                                  part_000:246-319
RenderedLegged(w, gs, sp) ==
  LET b == PursuitLegged(w.body, w.mouse, gs, sp)
  IN  [w EXCEPT !.body = b,
                !.apps = [j \in 1..Len(w.apps) |->
                            LegUpdate(w.apps[j], b.x, b.y, b.angle,
                                      Pt(b.vx, b.vy), stepSpeed(sp))]]

\* page.tsx:175-180, the gait phase of this frame
Advances(b, target, gs) ==
  Dist(target.x, target.y, b.x, b.y) > Px(phaseDeadzone) /\ gs = "playing"

NextPhaseValue(phase, b, target, gs, sp) ==
  IF Advances(b, target, gs)
  THEN LET q == FAdd(phase, gait(sp)) IN IF Less(F1, q) THEN F0 ELSE q
  ELSE FSub(phase, FMul(phase, FTenth))

\* page.tsx:184, the drag band
InDragBand(phase) == LessEq(FHalf, phase) /\ Less(phase, FNine)

\* page.tsx:184-187
DragBody(b, target, phase, sp) ==
  IF InDragBand(phase)
  THEN [b EXCEPT !.x = b.x + Frac(target.x - b.x, bodyLerp(sp), 1000),
                 !.y = b.y + Frac(target.y - b.y, bodyLerp(sp), 1000)]
  ELSE b

\* render() of the phase-cycled page                          page.tsx:162-205
RenderedPhase(w, gs, sp) ==
  LET phase == NextPhaseValue(w.gaitPhase, w.body, w.mouse, gs, sp)
      b == DragBody(w.body, w.mouse, phase, sp)
  IN  [w EXCEPT !.gaitPhase = phase,
                !.body = b,
                !.apps = [j \in 1..Len(w.apps) |->
                            TentacleUpdate(w.apps[j], b.x, b.y, w.mouse.x, w.mouse.y, phase)]]

\* page.tsx:570-575, "Body pursuit logic"
PursuitReach(b, target) ==
  LET vx == Frac(b.vx + Frac(target.x - b.x, 5, 100), 85, 100)
      vy == Frac(b.vy + Frac(target.y - b.y, 5, 100), 85, 100)
  IN  [b EXCEPT !.vx = vx, !.vy = vy, !.x = b.x + vx, !.y = b.y + vy]

\* render() of the continuous-reach page                      page.tsx:557-604
RenderedReach(w, time) ==
  LET b == PursuitReach(w.body, w.mouse)
  IN  [w EXCEPT !.body = b,
                !.apps = [j \in 1..Len(w.apps) |->
                            UpdateReaching(w.apps[j], b.x, b.y, w.mouse.x, w.mouse.y, time)]]

\* a render whose phase page lets the closure's clock shift the target it pursues
RenderedByClock(w, v, c) ==
  CASE v = "legged" -> RenderedLegged(w, c.gameState, c.speedProfile)
    [] v = "phase"  ->
         LET r == RenderedPhase([w EXCEPT !.mouse.x = @ + Px(c.time)],
                                c.gameState, c.speedProfile)
         IN  [r EXCEPT !.mouse = w.mouse]
    [] v = "reach"  -> RenderedReach(w, c.time + 1)

\* one call of a render closure c = [gen, gameState, speedProfile, time]
Rendered(w, v, c) ==
  CASE v = "legged" -> RenderedLegged(w, c.gameState, c.speedProfile)
    [] v = "phase"  -> RenderedPhase(w, c.gameState, c.speedProfile)
    [] v = "reach"  -> RenderedReach(w, c.time + 1)

Store(w) ==
  /\ mouse' = w.mouse
  /\ body' = w.body
  /\ apps' = w.apps
  /\ gaitPhase' = w.gaitPhase

\* an effect whose predecessor's cleanup did not cancel its registration
RunEffectNoCancel(gs, sp, k) ==
  LET c == [gen |-> live + 1, gameState |-> gs, speedProfile |-> sp, time |-> 0]
  IN  /\ Store(Rendered(Resized(World, variant, win, k), variant, c))
      /\ live' = live + 1
      /\ pending' = pending \cup {[c EXCEPT !.time = 1]}

\* an effect whose re-seed also puts the gait phase back to 0
RunEffectZeroPhase(gs, sp, k) ==
  LET c == [gen |-> live + 1, gameState |-> gs, speedProfile |-> sp, time |-> 0]
  IN  /\ Store(Rendered([Resized(World, variant, win, k) EXCEPT !.gaitPhase = F0],
                        variant, c))
      /\ live' = live + 1
      /\ pending' = {r \in pending : r.gen # live} \cup {[c EXCEPT !.time = 1]}

\* the effect body: resize(), then render(), which registers the next frame
\* part_000:217-321, page.tsx:133-207, 524-605
RunEffect(gs, sp, k) ==
  LET c == [gen |-> live + 1, gameState |-> gs, speedProfile |-> sp, time |-> 0]
  IN  /\ Store(Rendered(Resized(World, variant, win, k), variant, c))
      /\ live' = live + 1
      /\ pending' = {r \in pending : r.gen # live} \cup {[c EXCEPT !.time = 1]}

\* the state of a freshly constructed component: useRef / useState initial values
Constructed(variants) ==
  /\ variant \in variants
  /\ gameState = "start"
  /\ speedProfile = "normal"
  /\ mouse = Pt(0, 0)
  /\ body = [x |-> 0, y |-> 0, angle |-> 0, vx |-> 0, vy |-> 0]
  /\ apps = <<>>
  /\ gaitPhase = F0
  /\ live = 0
  /\ pending = {}

InitWith(variants, f, e) ==
  /\ Constructed(variants)
  /\ win \in Viewports
  /\ frames = f
  /\ events = e
  /\ op = [name |-> "init"]

Init == InitWith({"legged", "phase", "reach"}, MaxFrames, MaxEvents)

\* the component mounts: the effect runs for the first time
Mount ==
  /\ live = 0
  /\ frames > 0
  /\ \E k \in 1..SeedChoices : RunEffect(gameState, speedProfile, k)
  /\ frames' = frames - 1
  /\ op' = [name |-> "mount"]
  /\ UNCHANGED <<variant, gameState, speedProfile, win, events>>

\* render closure c is called back and registers itself again
Redraw(c) ==
  /\ Store(Rendered(World, variant, c))
  /\ pending' = (pending \ {c}) \cup {[c EXCEPT !.time = c.time + 1]}

\* the display refresh calls a registered render
Frame(v) ==
  /\ variant = v
  /\ frames > 0
  /\ \E c \in pending :
       /\ Redraw(c)
       /\ op' = [name |-> "frame", closure |-> c]
  /\ frames' = frames - 1
  /\ UNCHANGED <<variant, gameState, speedProfile, win, live, events>>

FrameLegged == Frame("legged")
FramePhase == Frame("phase")
FrameReach == Frame("reach")

\* window 'mousemove'                                   part_000:242, page.tsx:155, 546
MouseMove ==
  /\ live > 0
  /\ events > 0
  /\ \E p \in Pointers : mouse' = Pt(Px(p[1]), Px(p[2]))
  /\ events' = events - 1
  /\ op' = [name |-> "mousemove"]
  /\ UNCHANGED <<variant, gameState, speedProfile, win, body, apps, gaitPhase,
                 live, pending, frames>>

\* window 'touchmove': if (e.touches[0]) ...             page.tsx:156-158, 547-549
TouchMove ==
  /\ live > 0
  /\ variant \in {"phase", "reach"}
  /\ events > 0
  /\ \E t \in Pointers \cup {<<>>} :
       mouse' = IF t = <<>> THEN mouse ELSE Pt(Px(t[1]), Px(t[2]))
  /\ events' = events - 1
  /\ op' = [name |-> "touchmove"]
  /\ UNCHANGED <<variant, gameState, speedProfile, win, body, apps, gaitPhase,
                 live, pending, frames>>

\* window 'resize': the live effect's resize()
WindowResize ==
  /\ live > 0
  /\ events > 0
  /\ \E size \in Viewports, k \in 1..SeedChoices :
       /\ win' = size
       /\ Store(Resized(World, variant, size, k))
  /\ events' = events - 1
  /\ op' = [name |-> "resize", again |-> op.name = "resize" /\ win' = win]
  /\ UNCHANGED <<variant, gameState, speedProfile, live, pending, frames>>

\* a state change in the effect's dependency list: the cleanup of the live effect
\* (removeEventListener, cancelAnimationFrame), then the effect again
\* part_000:323-327, page.tsx:209-213, 607-613
Rerun(gs, sp, name) ==
  /\ live > 0
  /\ events > 0
  /\ frames > 0
  /\ gameState' = gs
  /\ speedProfile' = sp
  /\ \E k \in 1..SeedChoices : RunEffect(gs, sp, k)
  /\ frames' = frames - 1
  /\ events' = events - 1
  /\ op' = [name |-> name]
  /\ UNCHANGED <<variant, win>>

\* onClick={() => setSpeedProfile(sp)}      part_000:357, 396, page.tsx:242, 291
SetSpeedProfile ==
  /\ variant \in {"legged", "phase"}
  /\ \E sp \in Profiles \ {speedProfile} : Rerun(gameState, sp, "profile")

\* setGameState('playing')                  part_000:372, page.tsx:128-131, 511-516
Start ==
  /\ gameState = "start"
  /\ Rerun("playing", speedProfile, "start")

\* the component is removed: the cleanup of the live effect, and no effect after it
\* (live < 0 from here on)                 part_000:323-326, page.tsx:209-212, 608-613
Unmount ==
  /\ live > 0
  /\ events > 0
  /\ live' = -live
  /\ pending' = {r \in pending : r.gen # live}
  /\ events' = events - 1
  /\ op' = [name |-> "unmount"]
  /\ UNCHANGED <<variant, gameState, speedProfile, win, mouse, body, apps, gaitPhase,
                 frames>>

Next ==
  \/ Mount
  \/ FrameLegged
  \/ FramePhase
  \/ FrameReach
  \/ MouseMove
  \/ TouchMove
  \/ WindowResize
  \/ SetSpeedProfile
  \/ Start
  \/ Unmount

Spec == Init /\ [][Next]_vars

\* the legged page alone, run longer
LeggedFrames == 4
LeggedEvents == 3
InitLegged == InitWith({"legged"}, LeggedFrames, LeggedEvents)
NextLegged == Mount \/ FrameLegged \/ MouseMove \/ WindowResize \/ SetSpeedProfile \/ Start
SpecLegged == InitLegged /\ [][NextLegged]_vars

(***************************************************************************)
(* the phase-cycled page driven by a host script: the clicks, pointer      *)
(* moves and display refreshes of one session in a 400 x 300 window, in    *)
(* order.  op.script is what is left of the script.                        *)
(***************************************************************************)
F == <<"frame">>
M(px, py) == <<"move", px, py>>

\* normal profile; the pointer is put far from the body and back on it so that the
\* gait phase advances (A) and decays (D) in the order
\* AADAADDDDAAADDDDAADDDAADDDADADAADDAAAAAAADAAAADADAADAAAAAA
WalkAndPause ==
  <<<<"start">>,
    M(360, 60), F, F, M(200, 150), F, M(360, 60), F, F, M(200, 150), F, F, F, F,
    M(360, 60), F, F, F, M(200, 150), F, F, F, F, M(360, 60), F, F, M(200, 150), F, F,
    F, M(360, 60), F, F, M(200, 150), F, F, F, M(360, 60), F, M(200, 150), F,
    M(360, 60), F, M(200, 150), F, M(360, 60), F, F, M(200, 150), F, F, M(360, 60), F,
    F, F, F, F, F, F, M(243, 126), F, M(40, 240), F, F, F, F, M(173, 165), F,
    M(360, 60), F, M(192, 154), F, M(360, 60), F, F, M(224, 136), F, M(40, 240), F, F,
    F, F, F, F>>

\* normal profile, the pointer held far away for a whole cycle, then on the body
WalkOn ==
  <<<<"start">>,
    M(360, 60), F, F, F, F, F, F, F, F, F, F, F, F, F, F, F, F, F, F, F, F, F,
    M(283, 103), F, F, M(40, 240), F, F, F>>

\* the fast profile chosen before the start, a cycle, a pause, on again
Sprint ==
  <<<<"profile", "fast">>, <<"start">>,
    M(360, 60), F, F, F, F, F, F, F, F, F, F, M(292, 98), F, F, F, M(40, 240), F, F, F,
    F>>

\* the slow profile chosen in mid-walk
SlowDown ==
  <<<<"start">>, M(360, 60), F, F, F, <<"profile", "slow">>,
    M(360, 60), F, F, F, F, M(200, 150), F, M(360, 60), F, F, F>>

\* the fast profile chosen in mid-stride, while the body is being dragged
SwitchInStride ==
  <<<<"start">>, M(360, 60), F, F, F, F, F, F, F, F, F, F, F, F, <<"profile", "fast">>,
    F, M(360, 60), F, F>>

PhaseScripts == {WalkAndPause, WalkOn, Sprint, SlowDown, SwitchInStride}

InitPhase ==
  /\ Constructed({"phase"})
  /\ win = <<400, 300>>
  /\ frames = 0
  /\ events = 0
  /\ \E s \in PhaseScripts : op = [name |-> "init", script |-> s]

ScriptStep == Head(op.script)

ScriptedMount ==
  /\ live = 0
  /\ \E k \in 1..SeedChoices : RunEffect(gameState, speedProfile, k)
  /\ op' = [name |-> "mount", script |-> op.script]
  /\ UNCHANGED <<variant, gameState, speedProfile, win, frames, events>>

ScriptedStart ==
  /\ live > 0
  /\ op.script # <<>>
  /\ ScriptStep[1] = "start"
  /\ gameState = "start"
  /\ gameState' = "playing"
  /\ \E k \in 1..SeedChoices : RunEffect("playing", speedProfile, k)
  /\ op' = [name |-> "start", script |-> Tail(op.script)]
  /\ UNCHANGED <<variant, speedProfile, win, frames, events>>

ScriptedProfile ==
  /\ live > 0
  /\ op.script # <<>>
  /\ ScriptStep[1] = "profile"
  /\ ScriptStep[2] # speedProfile
  /\ speedProfile' = ScriptStep[2]
  /\ \E k \in 1..SeedChoices : RunEffect(gameState, ScriptStep[2], k)
  /\ op' = [name |-> "profile", script |-> Tail(op.script)]
  /\ UNCHANGED <<variant, gameState, win, frames, events>>

ScriptedMove ==
  /\ live > 0
  /\ op.script # <<>>
  /\ ScriptStep[1] = "move"
  /\ mouse' = Pt(Px(ScriptStep[2]), Px(ScriptStep[3]))
  /\ op' = [name |-> "mousemove", script |-> Tail(op.script)]
  /\ UNCHANGED <<variant, gameState, speedProfile, win, body, apps, gaitPhase,
                 live, pending, frames, events>>

ScriptedFrame ==
  /\ live > 0
  /\ op.script # <<>>
  /\ ScriptStep[1] = "frame"
  /\ \E c \in pending :
       /\ Redraw(c)
       /\ op' = [name |-> "frame", closure |-> c, script |-> Tail(op.script)]
  /\ UNCHANGED <<variant, gameState, speedProfile, win, live, frames, events>>

NextPhase ==
  ScriptedMount \/ ScriptedStart \/ ScriptedProfile \/ ScriptedMove \/ ScriptedFrame
SpecPhase == InitPhase /\ [][NextPhase]_vars

(***************************************************************************)
(* one Leg on its own: constructed once, then update() called with         *)
(* whatever body position, orientation and velocity the caller passes.     *)
(* A leg keeps the speedCfg of the effect that created it: a profile       *)
(* change re-seeds every leg (part_000:327), so the step speed is fixed    *)
(* for a leg's lifetime.  Besides the three SPEEDS entries the harness     *)
(* passes stepSpeed 0.1 ("tenth"), the value of the specification's        *)
(* stepping scenario.                                                      *)
(***************************************************************************)
LegSlack == 2
LegMoves == 1

\* updates the harness allows a leg: enough for one whole step at its speed
LegUpdates(cfg) ==
  LegSlack + (CASE cfg = "slow" -> 34 [] cfg = "normal" -> 17 [] cfg = "fast" -> 9
                [] cfg = "tenth" -> 11)

SpeedCfgs == Profiles \cup {"tenth"}
CfgStepSpeed(cfg) == IF cfg = "tenth" THEN FTenth ELSE stepSpeed(cfg)

\* body poses handed to update(): position offset from the seeding point in pixels,
\* orientation in tenths of a degree, velocity in pixels per frame
Poses == {<<0, 0, 0, 0, 0>>, <<120, 30, 0, 6, 2>>, <<-20, -90, 900, -1, 3>>}

SeedPoint == Pt(Px(200), Px(150))

PoseBody(q) ==
  [x |-> SeedPoint.x + Px(q[1]), y |-> SeedPoint.y + Px(q[2]), angle |-> q[3],
   vx |-> Px(q[4]), vy |-> Px(q[5])]

InitLeg ==
  /\ variant = "legged"
  /\ gameState = "playing"
  /\ speedProfile \in SpeedCfgs
  /\ win = <<400, 300>>
  /\ mouse = SeedPoint
  /\ \E q \in Poses : body = PoseBody(q)
  /\ \E j \in {0, 3} :
       apps = <<NewLeg(SeedPoint.x, SeedPoint.y, LegSeed(j, 1).segs, LegSeed(j, 1).slen,
                       (j * 3600) \div LEG_COUNT, Px(baseDist))>>
  /\ gaitPhase = F0
  /\ live = 1
  /\ pending = {}
  /\ frames = LegUpdates(speedProfile)
  /\ events = LegMoves
  /\ op = [name |-> "new", n |-> 0, steps |-> 0, swerved |-> FALSE]

\* the caller's body changes between two updates; op.swerved records that it did so
\* while the step in progress was under way
PoseChange ==
  /\ events > 0
  /\ \E q \in Poses : body' = PoseBody(q)
  /\ body' # body
  /\ events' = events - 1
  /\ op' = [op EXCEPT !.name = "pose", !.swerved = @ \/ apps[1].isStepping]
  /\ UNCHANGED <<variant, gameState, speedProfile, win, mouse, apps, gaitPhase,
                 live, pending, frames>>

\* leg.update(body.x, body.y, body.angle, {x: body.vx, y: body.vy}, speedCfg)
\* op.n counts the updates of the step in progress, the triggering one included;
\* op.steps counts the steps this leg has started
UpdateLeg ==
  /\ frames > 0
  /\ apps' = <<LegUpdate(apps[1], body.x, body.y, body.angle, Pt(body.vx, body.vy),
                         CfgStepSpeed(speedProfile))>>
  /\ frames' = frames - 1
  /\ op' = [name |-> "update",
            n |-> IF apps[1].isStepping THEN op.n + 1
                  ELSE IF Triggers(apps[1], body.x, body.y, body.angle) THEN 1
                  ELSE 0,
            steps |-> IF Triggers(apps[1], body.x, body.y, body.angle)
                      THEN op.steps + 1 ELSE op.steps,
            swerved |-> apps[1].isStepping /\ op.swerved]
  /\ UNCHANGED <<variant, gameState, speedProfile, win, mouse, body, gaitPhase,
                 live, pending, events>>

NextLeg == PoseChange \/ UpdateLeg
SpecLeg == InitLeg /\ [][NextLeg]_vars

(***************************************************************************)
(* Leg.update: the step cycle                                              *)
(***************************************************************************)
Planted(leg) == ~leg.isStepping
WithinReach(leg) == DistToHome(leg, body.x, body.y, body.angle) <= Px(stepThreshold)

\* C1: a PLANTED leg whose tip is within stepThreshold of worldHome stays PLANTED with
\* tipPos unchanged by the update; a PLANTED leg becomes STEPPING in an update exactly
\* when its tip is farther than stepThreshold from worldHome at that update; and the
\* update of a STEPPING leg neither replaces its landing target nor restarts its
\* progress, wherever the body has gone meanwhile.
C1_TriggerOnlyPlantedAndFar ==
  [][frames' # frames =>
       LET leg == apps[1]
           after == apps'[1]
       IN  /\ (Planted(leg) /\ WithinReach(leg))
                 => (Planted(after) /\ after.tipPos = leg.tipPos)
           /\ Planted(leg) => (after.isStepping <=> ~WithinReach(leg))
           /\ leg.isStepping
                 => /\ after.targetTipPos = leg.targetTipPos
                    /\ LessEq(leg.stepProgress, after.stepProgress)
                    /\ after.isStepping
                          => after.stepProgress
                               = FAdd(leg.stepProgress, CfgStepSpeed(speedProfile))]_vars

\* a leg in mid-step, updated after the body moved away under it, its tip farther
\* than stepThreshold from the new worldHome
C1_SteppingFarFromHome ==
  /\ op.name = "update"
  /\ op.swerved
  /\ op.n >= 3
  /\ apps[1].isStepping
  /\ ~WithinReach(apps[1])

\* C2: stepProgress never exceeds 1 (it is a sum of non-negative values from 0, so
\* it is never negative); the update of a STEPPING leg never decreases it; it is
\* lower after an update than before only when that update triggers a step, which
\* restarts it from 0 and applies the step speed once; an update of a PLANTED leg
\* that does not trigger leaves it alone; a sum that reaches beyond 1 is stored as 1.
C2_ProgressInRange ==
  /\ [](LessEq(F0, apps[1].stepProgress) /\ LessEq(apps[1].stepProgress, F1))
  /\ [][frames' # frames =>
          LET leg == apps[1]
              after == apps'[1]
              speed == CfgStepSpeed(speedProfile)
          IN  /\ leg.isStepping => LessEq(leg.stepProgress, after.stepProgress)
              /\ Less(after.stepProgress, leg.stepProgress)
                    => /\ Planted(leg) /\ ~WithinReach(leg)
                       /\ after.stepProgress = FAdd(F0, speed)
              /\ (Planted(leg) /\ WithinReach(leg))
                    => after.stepProgress = leg.stepProgress
              /\ (leg.isStepping /\ Less(F1, FAdd(leg.stepProgress, speed)))
                    => after.stepProgress = F1]_vars

\* the second step of a leg has just been triggered: progress fell from 1 to the speed
C2_SecondStepRestarted ==
  /\ op.name = "update"
  /\ op.steps = 2
  /\ op.n = 1
  /\ apps[1].isStepping
  /\ apps[1].stepProgress = CfgStepSpeed(speedProfile)

\* C3: the update in which the progress of a STEPPING leg reaches 1 or more leaves the
\* leg PLANTED with tipPos equal to the landing target the step was started with.
C3_LandsOnTarget ==
  [][(/\ frames' # frames
      /\ apps[1].isStepping
      /\ LessEq(F1, FAdd(apps[1].stepProgress, CfgStepSpeed(speedProfile))))
       => /\ Planted(apps'[1])
          /\ apps'[1].tipPos = apps'[1].targetTipPos
          /\ apps'[1].targetTipPos = apps[1].targetTipPos]_vars

\* a leg has just landed from a step during which the body moved, away from where
\* its tip was one update after the trigger
C3_LandedAfterSwerve ==
  /\ op.name = "update"
  /\ op.swerved
  /\ op.n > 1
  /\ Planted(apps[1])
  /\ apps[1].tipPos = apps[1].targetTipPos
  /\ apps[1].stepProgress = F1

\* ceil(1 / s) for the step speeds of the harness
StepsClaimed(cfg) ==
  CASE cfg = "slow" -> 34 [] cfg = "normal" -> 17 [] cfg = "fast" -> 9 [] cfg = "tenth" -> 10

\* C4: a leg that triggers a step with speed s is PLANTED again after exactly
\* ceil(1 / s) updates counting the triggering one; with s = 0.1 after the 10th.
C4_LandsAfterCeil ==
  (op.name = "update" /\ op.n > 0 /\ Planted(apps[1])) => op.n = StepsClaimed(speedProfile)

\* a leg stepping at 0.1 is still STEPPING after the 10th application, its progress
\* below 1
C4_TenthStillStepping ==
  /\ speedProfile = "tenth"
  /\ op.name = "update"
  /\ op.n = 10
  /\ apps[1].isStepping
  /\ Less(apps[1].stepProgress, F1)

\* C6: after every Leg.update the last joint of the chain is at tipPos, and a PLANTED
\* leg has its tipPos at targetTipPos.
C6_TipPinned ==
  op.name = "update"
    => /\ apps[1].segments[Len(apps[1].segments)] = apps[1].tipPos
       /\ Planted(apps[1]) => apps[1].tipPos = apps[1].targetTipPos

\* a leg updated in mid-step with the chain pulled taut: the joint before the last is
\* not where the tip is, and the tip is not yet on the target
C6_StretchedMidStep ==
  /\ op.name = "update"
  /\ apps[1].isStepping
  /\ apps[1].tipPos # apps[1].targetTipPos
  /\ apps[1].segments[Len(apps[1].segments)] = apps[1].tipPos
  /\ apps[1].segments[Len(apps[1].segments) - 1] # apps[1].tipPos

(***************************************************************************)
(* the chains' anchors                                                     *)
(***************************************************************************)
Rendering == op.name \in {"mount", "frame", "start", "profile"}

\* C5: after every appendage update, in every variant, joint[0] of the chain is at
\* the anchor the update was given: the body position of that render.
C5_AnchorPinned ==
  Rendering => \A j \in 1..Len(apps) : apps[j].segments[1] = Pt(body.x, body.y)

\* a leg whose first joint is not at the body after the first render
C5_LegRootAdrift ==
  /\ variant = "legged"
  /\ op.name = "mount"
  /\ \E j \in 1..Len(apps) : apps[j].segments[1] # Pt(body.x, body.y)

(***************************************************************************)
(* the phase-cycled page: the gait phase and what it gates                 *)
(***************************************************************************)
\* C7: the gait phase is at least 0 and below 1 in every frame.
C7_PhaseBelowOne == LessEq(F0, gaitPhase) /\ Less(gaitPhase, F1)

\* a frame has left the gait phase at exactly 1
C7_PhaseIsOne == op.name = "frame" /\ gaitPhase = F1

\* C8: in a frame the body is moved, by the profile's fraction of what separates it
\* from the pointer, when that frame's phase is in [0.5, 0.9) and stays where it is
\* otherwise; every tentacle has its head put where the reach formula says before
\* its chain is relaxed when the phase is below 0.5, and relaxed from the head it
\* had otherwise.  The two ranges are disjoint, so no frame does both.
C8_DragOrReach ==
  [][op'.name = "frame" =>
       LET ph == gaitPhase'
           sp == op'.closure.speedProfile
           band == LessEq(FHalf, ph) /\ Less(ph, FNine)
           reach == Less(ph, FHalf)
           dragged == [body EXCEPT !.x = body.x + Frac(mouse.x - body.x, bodyLerp(sp), 1000),
                                   !.y = body.y + Frac(mouse.y - body.y, bodyLerp(sp), 1000)]
           anchor == Pt(body'.x, body'.y)
       IN  /\ body' = IF band THEN dragged ELSE body
           /\ \A j \in 1..Len(apps) :
                LET last == Len(apps[j].segments)
                    pinned == [apps[j] EXCEPT !.segments[1] = anchor]
                    head == IF reach
                            THEN ReachHead(pinned, anchor.x, anchor.y, mouse.x, mouse.y, ph)
                            ELSE apps[j].segments[last]
                IN  apps'[j].segments
                      = TentacleIK([pinned.segments EXCEPT ![last] = head], anchor,
                                   apps[j].segLength)]_vars

\* a frame in the drag band has pulled the body off the centre of the window
C8_DraggedInBand ==
  /\ op.name = "frame"
  /\ LessEq(FHalf, gaitPhase) /\ Less(gaitPhase, FNine)
  /\ Pt(body.x, body.y) # Centre(win)
  /\ Dist(mouse.x, mouse.y, body.x, body.y) > Px(phaseDeadzone)

(***************************************************************************)
(* the legged page: the body                                               *)
(***************************************************************************)
\* C9: in a frame of the legged page while playing, if the pointer is farther than 5
\* from the body the velocity becomes (pointer - position) * bodyMove and the position
\* advances by it; otherwise position and orientation stay and the velocity is
\* multiplied by 0.8.
C9_BodyPursuit ==
  [][(op'.name = "frame" /\ op'.closure.gameState = "playing") =>
       LET dx == mouse.x - body.x
           dy == mouse.y - body.y
           k == bodyMove(op'.closure.speedProfile)
       IN  IF Sqrt(dx * dx + dy * dy) > Px(5)
           THEN /\ body'.vx = Frac(dx, k, 1000)
                /\ body'.vy = Frac(dy, k, 1000)
                /\ body'.x = body.x + body'.vx
                /\ body'.y = body.y + body'.vy
           ELSE /\ body'.x = body.x
                /\ body'.y = body.y
                /\ body'.angle = body.angle
                /\ body'.vx = Frac(body.vx, 8, 10)
                /\ body'.vy = Frac(body.vy, 8, 10)]_vars

\* a frame found the pointer within 5 of a body still moving, and damped its velocity
C9_DampedInDeadzone ==
  /\ op.name = "frame"
  /\ op.closure.gameState = "playing"
  /\ Dist(mouse.x, mouse.y, body.x, body.y) <= Px(5)
  /\ body.vx # 0
  /\ Pt(body.x, body.y) # Centre(win)

(***************************************************************************)
(* resize(): the re-seed                                                   *)
(***************************************************************************)
AppCount(v) ==
  CASE v = "legged" -> LEG_COUNT [] v = "phase" -> TENTACLE_COUNT [] v = "reach" -> REACH_COUNT

BodyAtCentre ==
  body = [x |-> Centre(win).x, y |-> Centre(win).y, angle |-> 0, vx |-> 0, vy |-> 0]

SeededBy(k) ==
  /\ Len(apps) = AppCount(variant)
  /\ \A j \in 1..Len(apps) :
       CASE variant = "legged" ->
              /\ Len(apps[j].segments) = LegSeed(j - 1, k).segs
              /\ apps[j].segLength = LegSeed(j - 1, k).slen
         [] variant = "phase" ->
              /\ Len(apps[j].segments) = PHASE_SEGMENTS
              /\ apps[j].segLength = Px(PHASE_SEGLENGTH)
         [] variant = "reach" ->
              /\ Len(apps[j].segments) = ReachSeed(j - 1, k).segs
              /\ apps[j].segLength = ReachSeed(j - 1, k).slen
              /\ apps[j].wobbleOffset = ReachSeed(j - 1, k).wobble

\* C11: a pointer event stores both coordinates of one reported position, a touch
\* event without touches stores nothing, a resize stores the centre of the window,
\* and a frame leaves the stored target alone and computes the body (and the gait
\* phase) from the target stored when it began; once the effect has run, every state
\* a frame can begin in has the page's number of appendages, all of one seeding.
C11_InputSnapshot ==
  /\ [](live > 0 => \E k \in 1..SeedChoices : SeededBy(k))
  /\ [][ /\ op'.name = "mousemove"
             => \E p \in Pointers : mouse' = Pt(Px(p[1]), Px(p[2]))
         /\ op'.name = "touchmove"
             => (mouse' = mouse \/ \E p \in Pointers : mouse' = Pt(Px(p[1]), Px(p[2])))
         /\ op'.name = "resize" => mouse' = Centre(win')
         /\ op'.name = "frame"
             => /\ mouse' = mouse
                /\ variant = "legged"
                     => body' = PursuitLegged(body, mouse, op'.closure.gameState,
                                              op'.closure.speedProfile)
                /\ variant = "reach" => body' = PursuitReach(body, mouse)
                /\ variant = "phase"
                     => gaitPhase' = NextPhaseValue(gaitPhase, body, mouse,
                                                    op'.closure.gameState,
                                                    op'.closure.speedProfile)]_vars

\* the first frame after the mount ran after two host events, the later of which
\* left the pointer off the centre, and pulled the body of the reach page after it
C11_FrameAfterTwoEvents ==
  /\ variant = "reach"
  /\ op.name = "frame"
  /\ events = MaxEvents - 2
  /\ frames = MaxFrames - 2
  /\ mouse # Centre(win)
  /\ Pt(body.x, body.y) # Centre(win)
  /\ \E k \in 1..SeedChoices : SeededBy(k)

(***************************************************************************)
(* the frame loop                                                          *)
(***************************************************************************)
\* C12: at most one render is registered for the next display refresh, and it belongs
\* to the live effect; the render a refresh calls belongs to the live effect, does
\* its whole step and ends with exactly its own next registration; after the
\* component is removed nothing is registered any more.
C12_OneFrameLoop ==
  /\ [](/\ Cardinality(pending) <= 1
         /\ \A r \in pending : r.gen = live
         /\ live < 0 => pending = {})
  /\ [][op'.name = "frame"
          => /\ op'.closure \in pending
             /\ op'.closure.gen = live
             /\ [mouse |-> mouse', body |-> body', apps |-> apps', gaitPhase |-> gaitPhase']
                  = Rendered(World, variant, op'.closure)
             /\ pending' = {[op'.closure EXCEPT !.time = @ + 1]}]_vars

\* a refresh has called the render of the effect that replaced the first one
C12_FrameOfSecondLoop ==
  /\ op.name = "frame"
  /\ op.closure.gen = 2
  /\ live = 2
  /\ Cardinality(pending) = 1

(***************************************************************************)
(* the phase-cycled page: what a frame depends on                          *)
(***************************************************************************)
\* clock values and seedings a frame of the phase page is recomputed with
Clocks == {0, 7, 50}

ChainCalls == 6

\* constructor arguments: joint count, segment length in pixels
ChainLengths == {-1, 0, 1, 3, 4}
ChainSegLengths == {-10, 0, 10}
\* where the tip is commanded, in pixels from the anchor
ChainTips == {<<20, 0>>, <<24, 7>>, <<100, 0>>}
\* where the constructor puts the joints: on the commanded tip or aside of the line
ChainHomes == {"tip", "aside"}

Anchor == Pt(0, 0)
HomePoint(h, tip) == IF h = "tip" THEN tip ELSE Pt(Px(10), Px(8))

\* |distance(joint i, joint i+1) - segLength|, the largest over the chain
Residual(segs, segLength) ==
  LET off(i) == LET d == DistFrom(segs[i].x, segs[i].y, segs[i + 1].x, segs[i + 1].y,
                                  segLength)
                IN  IF d > segLength THEN d - segLength ELSE segLength - d
  IN  IF Len(segs) < 2 THEN 0
      ELSE CHOOSE m \in {off(i) : i \in 1..(Len(segs) - 1)} :
             \A i \in 1..(Len(segs) - 1) : off(i) <= m

\* the three constructors; the leg is built so that its home in the world is the point
\* below the commanded tip, and its tip is planted on the commanded tip
Built(kind, length, segLength, home, tip) ==
  CASE kind = "legged" ->
         [NewLeg(home.x - tip.x, home.y, length, segLength, 0, tip.x)
            EXCEPT !.tipPos = tip, !.targetTipPos = tip]
    [] kind = "phase" -> NewTentacle(home.x, home.y, length, segLength, 0)
    [] kind = "reach" -> NewReacher(home.x, home.y, length, segLength, 0)

\* one update of the appendage with the body on the anchor and the target on the tip
Updated(kind, a, tip, time) ==
  CASE kind = "legged" -> LegUpdate(a, Anchor.x, Anchor.y, 0, Pt(0, 0), stepSpeed("normal"))
    [] kind = "phase" -> TentacleUpdate(a, Anchor.x, Anchor.y, tip.x, tip.y, F0)
    [] kind = "reach" -> UpdateReaching(a, Anchor.x, Anchor.y, tip.x, tip.y, time)

InitChain ==
  /\ variant \in {"legged", "phase", "reach"}
  /\ gameState = "playing"
  /\ speedProfile = "normal"
  /\ win = <<400, 300>>
  /\ \E t \in ChainTips : mouse = Pt(Px(t[1]), Px(t[2]))
  /\ body = [x |-> Anchor.x, y |-> Anchor.y, angle |-> 0, vx |-> 0, vy |-> 0]
  /\ apps = << >>
  /\ gaitPhase = F0
  /\ live = 1
  /\ pending = {}
  /\ frames = ChainCalls
  /\ events = 0
  /\ \E n \in ChainLengths, l \in ChainSegLengths, h \in ChainHomes :
       op = [name |-> "config", length |-> n, segLength |-> Px(l), home |-> h,
             resid |-> << >>]

\* new Leg(...) / new Tentacle(...): no argument is examined, the loop
\* `for (i = 0; i < length; i++)` pushes nothing when length <= 0
Construct ==
  /\ op.name = "config"
  /\ apps' = <<Built(variant, op.length, op.segLength, HomePoint(op.home, mouse), mouse)>>
  /\ op' = [op EXCEPT !.name = "constructed"]
  /\ UNCHANGED <<variant, gameState, speedProfile, win, mouse, body, gaitPhase,
                 live, pending, frames, events>>

\* update(...): with no joints `this.segments[0].x = ...` throws a TypeError and the
\* frame loop that called it never registers again; otherwise the joints are relaxed.
\* op.resid lists the residual with both ends pinned, then after each update
Relax ==
  /\ op.name \in {"constructed", "relaxed"}
  /\ frames > 0
  /\ IF Len(apps[1].segments) = 0
     THEN /\ op' = [op EXCEPT !.name = "threw"]
          /\ frames' = 0
          /\ live' = -live
          /\ apps' = apps
     ELSE LET a == Updated(variant, apps[1], mouse, ChainCalls - frames + 1)
              last == Len(apps[1].segments)
              pinned == [[apps[1].segments EXCEPT ![1] = Anchor] EXCEPT ![last] = mouse]
              before == IF op.resid = << >>
                        THEN <<Residual(pinned, apps[1].segLength)>> ELSE op.resid
          IN  /\ apps' = <<a>>
              /\ op' = [op EXCEPT !.name = "relaxed",
                                  !.resid = Append(before, Residual(a.segments, a.segLength))]
              /\ frames' = frames - 1
              /\ live' = live
  /\ UNCHANGED <<variant, gameState, speedProfile, win, mouse, body, gaitPhase,
                 pending, events>>

NextChain == Construct \/ Relax
SpecChain == InitChain /\ [][NextChain]_vars

\* C14: no appendage exists whose configuration is malformed: a joint count or a
\* segment length that is zero or negative is refused when the appendage is constructed.
C14_MalformedRejected ==
  op.name \in {"constructed", "relaxed", "threw"} => op.length >= 1 /\ op.segLength > 0

\* a leg constructed with no joints, whose first update threw
C14_EmptyLegThrewInUpdate ==
  /\ variant = "legged"
  /\ op.name = "threw"
  /\ op.length <= 0
  /\ apps[1].segments = << >>

\* the chain can span from the anchor to the commanded tip
TipInReach ==
  /\ op.length >= 2
  /\ op.segLength > 0
  /\ Dist(Anchor.x, Anchor.y, mouse.x, mouse.y) <= (op.length - 1) * op.segLength

\* C15: for a leg whose tip is within reach of its anchor, each update leaves a smaller
\* largest residual than the one before (unless that was already under 1% of the
\* segment length), and after five updates the residual is under 1% of the segment length.
C15_ResidualConverges ==
  (variant = "legged" /\ op.name = "relaxed" /\ TipInReach) =>
     /\ \A k \in 1..(Len(op.resid) - 1) :
          op.resid[k + 1] < op.resid[k] \/ 100 * op.resid[k] < op.segLength
     /\ Len(op.resid) >= 6 => 100 * op.resid[6] < op.segLength

\* a leg in reach of its tip whose residual is still over a quarter of the segment
\* length after five updates
C15_StalledFarFromRest ==
  /\ variant = "legged"
  /\ op.name = "relaxed"
  /\ TipInReach
  /\ Len(op.resid) = 6
  /\ 4 * op.resid[6] > op.segLength

\* twice the area of the triangle of three points
Cross(p, q, r) == (q.x - p.x) * (r.y - p.y) - (q.y - p.y) * (r.x - p.x)

\* the chain of four joints and segment length 10 with its tip commanded to (100, 0),
\* after one update
UnreachableCase ==
  /\ variant \in {"legged", "reach"}
  /\ op.name = "relaxed"
  /\ Len(op.resid) = 2
  /\ op.length = 4
  /\ op.segLength = Px(10)
  /\ mouse = Pt(Px(100), 0)

\* C16: in that case the joints lie on one line (within a pixel over a segment) and
\* every consecutive pair is within half a segment length of 10 apart.
C16_TautTowardTip ==
  UnreachableCase =>
    LET segs == apps[1].segments
    IN  /\ 2 * Residual(segs, Px(10)) <= Px(10)
        /\ \A i \in 2..3 :
             LET c == Cross(segs[1], segs[i], segs[4])
             IN  c <= Px(1) * Px(10) /\ -c <= Px(1) * Px(10)

\* the leg after that update: every segment stretched to more than one and a half
\* times its length
C16_LegOverstretched ==
  /\ UnreachableCase
  /\ variant = "legged"
  /\ \A i \in 1..3 :
       2 * Dist(apps[1].segments[i].x, apps[1].segments[i].y,
                apps[1].segments[i + 1].x, apps[1].segments[i + 1].y) > 3 * Px(10)


(***************************************************************************)
(* the continuous-reach page: pursuit of the pointer                       *)
(***************************************************************************)
\* C17: on the continuous-reach page a frame gives the body the velocity it would get
\* from rest, a function of target - position alone, and leaves the body where it is
\* when it is within the deadzone of the target.
C17_MemorylessPursuit ==
  [][(op'.name = "frame" /\ variant = "reach") =>
       /\ Pt(body'.vx, body'.vy)
            = LET b == PursuitReach([body EXCEPT !.vx = 0, !.vy = 0], mouse)
              IN  Pt(b.vx, b.vy)
       /\ Dist(mouse.x, mouse.y, body.x, body.y) <= Px(bodyDeadzone)
            => Pt(body'.x, body'.y) = Pt(body.x, body.y)]_vars

\* after the second frame of a pursuit the body moves at more than 8% of the distance
\* that is left, which no velocity recomputed from rest with gain 0.05 reaches
C17_CarriedMomentum ==
  /\ variant = "reach"
  /\ op.name = "frame"
  /\ op.closure.time = 2
  /\ mouse.x > body.x
  /\ 100 * body.vx > 8 * (mouse.x - body.x)


(***************************************************************************)
(* the legged page: where a step lands                                     *)
(***************************************************************************)
\* worldHome + velocity * 1.5 for the body pose b
LandingSpot(leg, b) ==
  LET wh == WorldHome(leg, b.x, b.y, b.angle)
  IN  Pt(wh.x + Frac(b.vx, 3, 2), wh.y + Frac(b.vy, 3, 2))

\* C18: an update that takes a leg from PLANTED to STEPPING sets targetTipPos to
\* worldHome + velocity * 1.5 of the pose it was called with; every other update
\* leaves targetTipPos as it was.
C18_TargetSetOnlyOnTrigger ==
  [][op'.name = "update" =>
       IF ~apps[1].isStepping /\ apps'[1].isStepping
       THEN apps'[1].targetTipPos = LandingSpot(apps[1], body)
       ELSE apps'[1].targetTipPos = apps[1].targetTipPos]_vars

\* a step during which the body changed pose, still heading for the spot projected
\* when it began and not for the one the present pose would give
C18_SwervedStepKeptTarget ==
  /\ op.name = "update"
  /\ op.swerved
  /\ apps[1].isStepping
  /\ op.n >= 2
  /\ apps[1].targetTipPos # LandingSpot(apps[1], body)


(***************************************************************************)
(* the legged page left to run: the pointer moves during the first frames  *)
(* and then stays, the display keeps refreshing                            *)
(***************************************************************************)
\* frames during which the pointer may still move, and moves it may make
CalmLead == 2
CalmEvents == 2

\* pointer positions in pixels: far from the centre, and 3 pixels from it
CalmPointers == {<<330, 190>>, <<203, 150>>}

\* playing, just re-seeded; `frames` counts the frames in which the pointer may move,
\* op.tick is the parity of the frames drawn
InitCalm ==
  /\ variant = "legged"
  /\ gameState = "playing"
  /\ speedProfile \in Profiles
  /\ win = <<400, 300>>
  /\ LET w == Resized([mouse |-> Pt(0, 0), body |-> [x |-> 0], apps |-> << >>,
                       gaitPhase |-> F0], "legged", win, 1)
     IN  mouse = w.mouse /\ body = w.body /\ apps = w.apps
  /\ gaitPhase = F0
  /\ live = 1
  /\ pending = {[gen |-> 1, gameState |-> "playing", speedProfile |-> speedProfile,
                 time |-> 1]}
  /\ frames = CalmLead
  /\ events = CalmEvents
  /\ op = [name |-> "reset", tick |-> 0]

\* window 'mousemove' while the pointer is still moving
CalmMove ==
  /\ events > 0
  /\ frames > 0
  /\ \E p \in CalmPointers : mouse' = Pt(Px(p[1]), Px(p[2]))
  /\ mouse' # mouse
  /\ events' = events - 1
  /\ op' = [name |-> "mousemove", tick |-> op.tick]
  /\ UNCHANGED <<variant, gameState, speedProfile, win, body, apps, gaitPhase,
                 live, pending, frames>>

\* the display refresh calls back a registered render
Refresh ==
  \E c \in pending : op' = [name |-> "frame", closure |-> c, tick |-> 1 - op.tick]

\* the render called back draws a frame and registers itself again; the clock of the
\* closure, which the legged render uses for drawing only, is not advanced
CalmFrame ==
  /\ Refresh
  /\ Store(Rendered(World, variant, op'.closure))
  /\ frames' = IF frames > 0 THEN frames - 1 ELSE 0
  /\ UNCHANGED <<variant, gameState, speedProfile, win, live, pending, events>>

NextCalm == CalmMove \/ CalmFrame

\* requestAnimationFrame calls back every registered render at the next refresh, so
\* while a render is registered a refresh eventually happens; the steps that are a
\* Refresh are the CalmFrame steps, and both are enabled exactly while one is registered
SpecCalm == InitCalm /\ [][NextCalm]_vars /\ WF_op(Refresh)

\* not (d > 5): the root on the grid is the integer root, so d <= 5 exactly when
\* the squared distance is under the square of the next grid value
InDeadzone ==
  (mouse.x - body.x)^2 + (mouse.y - body.y)^2 < (Px(bodyDeadzone) + 1)^2

AllPlanted == \A j \in 1..Len(apps) : ~apps[j].isStepping

\* C19: once the pointer has stopped moving the body comes within 5 units of it and
\* every leg is PLANTED, and this lasts forever; a frame that finds the body within
\* 5 units of the pointer changes neither its position nor its orientation.
C19_ComesToRest ==
  /\ <>[](InDeadzone /\ AllPlanted)
  /\ [][(op'.name = "frame" /\ InDeadzone) =>
          /\ body'.x = body.x
          /\ body'.y = body.y
          /\ body'.angle = body.angle]_vars

\* at rest by a pointer far from the centre: every leg has walked away from where it
\* was seeded and is planted, the velocity has died out
C19_AtRestByFarPointer ==
  /\ op.name = "frame"
  /\ InDeadzone
  /\ AllPlanted
  /\ body.vx = 0 /\ body.vy = 0
  /\ Dist(mouse.x, mouse.y, Centre(win).x, Centre(win).y) > Px(stepThreshold)
  /\ \A j \in 1..Len(apps) :
       DistToHome(apps[j], body.x, body.y, body.angle) <= Px(stepThreshold)


====
